---- MODULE Spec2Model ----
(***************************************************************************)
(* A model of cocotb's top-level package (src/cocotb/__init__.py): the     *)
(* task entry points start_soon / start / create_task, the done-callback   *)
(* _task_done_callback that escalates task failures to the regression      *)
(* manager, the bootstrap sequence _initialise_testbench with its helpers, *)
(* the shutdown callbacks with _shutdown_testbench, and the simulator      *)
(* event handler _sim_event.                                               *)
(*                                                                         *)
(* cocotb.task.Task, cocotb._scheduler.Scheduler and                       *)
(* cocotb.regression.RegressionManager are used by that file but defined   *)
(* elsewhere; the parts of them the entry points touch are modelled from   *)
(* the specification's description of their interface.                     *)
(***************************************************************************)
EXTENDS Integers, Sequences, FiniteSets, TLC

(***************************************************************************)
(* Bounds                                                                  *)
(***************************************************************************)
\* number of task identities (task 1 is the test task the regression runs)
NTasks == 3
\* how many calls (create_task, start_soon, start, await, cancel) the task
\* bodies of one run make in total
MaxOps == 3

\* how many tokens the argument vectors of the plusargs specification hold
MaxArgs == 3
\* how long the values of COCOTB_TOPLEVEL of the root handle specification are
MaxRootLen == 3
\* how many times one session calls _sim_event or _shutdown_testbench
MaxEvents == 2
\* how many callbacks code outside the bootstrap registers for shutdown
MaxRegistrations == 2

Tasks == 1..NTasks
NoTask == 0
None == "None"

\* the error classes _task_done_callback distinguishes, and one plain error
Errors == {"TestSuccess", "AssertionError", "ValueError"}

VARIABLES
    \* ---- cocotb.task.Task, one per identity --------------------------------
    tstate,          \* "absent" | "pending" | "running" | "suspended" | "done"
    cancelled,       \* task.cancelled()
    exc,             \* task.exception(): None or the recorded error
    done_callbacks,  \* task._done_callbacks, a list of callbacks
    cancel_req,      \* a cancellation is waiting to be delivered by the scheduler
    tpc,             \* where the task's coroutine stands: "body" | "start_await"
    \* ---- cocotb._scheduler.Scheduler ---------------------------------------
    scheduled,       \* FIFO of tasks queued for execution
    trigger2tasks,   \* task.complete -> tasks suspended awaiting it (<<>>: no key)
    timer_waiters,   \* tasks suspended on a simulator trigger
    current,         \* the task holding control, NoTask when the scheduler does
    \* ---- cocotb.regression.RegressionManager -------------------------------
    abort_calls,     \* the calls of _abort_test made so far, in order
    \* ---- observation ---------------------------------------------------------
    task_log,        \* what task.log received, in order
    monitor_calls,   \* how often _task_done_callback ran for each task
    watched,         \* whether a task awaited t.complete when t became done
    turns,           \* how often the scheduler gave each task control
    ops,             \* how many calls the task bodies have made
    start_snap,      \* for a caller inside start(): the queue and turns at the call
    ret              \* the last call of create_task under observation: its
                     \* argument, the tasks before it, what it returned or raised

taskVars == <<tstate, cancelled, exc, done_callbacks, cancel_req, tpc, scheduled,
              trigger2tasks, timer_waiters, current, abort_calls, task_log,
              monitor_calls, watched, turns, ops, start_snap, ret>>



VARIABLES
    env,     \* os.environ: one field per variable the bootstrap reads
    argv_,   \* the argument vector the simulator passes to _initialise_testbench
    sim,     \* what the simulator bridge and the Python installation answer
    boot     \* the module globals of cocotb and the effects of the bootstrap

bootVars == <<env, argv_, sim, boot>>

vars == <<taskVars, bootVars>>

NoRet == [called |-> FALSE, created |-> {}]

NoSnap == [queued |-> {}, turns |-> [t \in Tasks |-> 0], active |-> FALSE]

(***************************************************************************)
(* Sequence helpers                                                        *)
(***************************************************************************)
Range(s) == {s[i] : i \in DOMAIN s}

Without(s, x) == SelectSeq(s, LAMBDA y : y # x)

RECURSIVE Concat(_)
Concat(ss) == IF ss = <<>> THEN <<>> ELSE Head(ss) \o Concat(Tail(ss))

(***************************************************************************)
(* cocotb.regression.RegressionManager._abort_test and task.log, as the    *)
(* records _task_done_callback leaves behind                               *)
(***************************************************************************)
NoEffect == [aborts |-> <<>>, logs |-> <<>>]

Escalate(task, e, level) ==
    [aborts |-> <<[task |-> task, exc |-> e]>>,
     logs   |-> <<[task |-> task, level |-> level]>>]

(***************************************************************************)
(* _task_done_callback(task): the calls it makes, given the task's outcome *)
(* and the scheduler's _trigger2tasks map at the time it runs              *)
(***************************************************************************)
\* the same with the cancelled() test left out
_task_done_callback_no_cancel_check(task, is_cancelled, e, t2t) ==
    IF t2t[task] # <<>> THEN NoEffect
    ELSE IF e = None THEN NoEffect
    ELSE IF e \in {"TestSuccess", "AssertionError"} THEN Escalate(task, e, "info")
    ELSE Escalate(task, e, "error")

\* the same with the _trigger2tasks test left out
_task_done_callback_no_waiter_check(task, is_cancelled, e, t2t) ==
    IF is_cancelled THEN NoEffect
    ELSE IF e = None THEN NoEffect
    ELSE IF e \in {"TestSuccess", "AssertionError"} THEN Escalate(task, e, "info")
    ELSE Escalate(task, e, "error")

_task_done_callback(task, is_cancelled, e, t2t) ==
    IF is_cancelled THEN NoEffect
    ELSE IF t2t[task] # <<>> THEN NoEffect
    ELSE IF e = None THEN NoEffect
    ELSE IF e \in {"TestSuccess", "AssertionError"} THEN Escalate(task, e, "info")
    ELSE Escalate(task, e, "error")

(***************************************************************************)
(* Task._add_done_callback and Scheduler._schedule_task                    *)
(***************************************************************************)
_add_done_callback(cbs, task, cb) == [cbs EXCEPT ![task] = Append(@, cb)]

_schedule_task(q, task) == IF task \in Range(q) THEN q ELSE Append(q, task)

\* awaiting cocotb.triggers.NullTrigger: the trigger fires when primed, so the
\* awaiting task goes to the back of the queue
NullTrigger(q, task) == _schedule_task(q, task)

(***************************************************************************)
(* create_task(coro).  The argument is a Python value: a Task (id is its   *)
(* identity; whether cocotb.task.Task also passes isinstance(_, Coroutine) *)
(* is left open), a coroutine (id is the identity of the Task that will    *)
(* own it), a coroutine function, an async generator, or anything else.    *)
(* The result is the Task returned or the TypeError raised, and the tasks  *)
(* that exist after the call.                                              *)
(***************************************************************************)
IsTask(coro) == coro.kind = "Task"

IsCoroutine(coro) == coro.kind = "Coroutine" \/ (coro.kind = "Task" /\ coro.abc)

Returns(ts, task) == [tstate |-> ts, task |-> task, error |-> "none"]

TypeError(ts, msg) == [tstate |-> ts, task |-> NoTask, error |-> msg]

\* cocotb.task.Task(coro): a new Task, pending, under the next free identity
NewTask(ts, coro) ==
    LET id == IF coro.kind = "Coroutine" THEN coro.id
              ELSE CHOOSE x \in Tasks \cup {NoTask} :
                       /\ x \in Tasks => ts[x] = "absent"
                       /\ x = NoTask => \A y \in Tasks : ts[y] # "absent"
    IN  IF id = NoTask THEN Returns(ts, NoTask)
        ELSE Returns([ts EXCEPT ![id] = "pending"], id)

\* a create_task that tests for a coroutine before it tests for a Task
create_task_coroutine_test_first(ts, coro) ==
    IF IsCoroutine(coro) THEN NewTask(ts, coro)
    ELSE IF IsTask(coro) THEN Returns(ts, coro.id)
    ELSE IF coro.kind = "coroutine function"
    THEN TypeError(ts, "should be called prior to being scheduled")
    ELSE IF coro.kind = "async generator"
    THEN TypeError(ts, "is an async generator, not a coroutine")
    ELSE TypeError(ts, "isn't a coroutine")

create_task(ts, coro) ==
    IF IsTask(coro) THEN Returns(ts, coro.id)
    ELSE IF IsCoroutine(coro) THEN NewTask(ts, coro)
    ELSE IF coro.kind = "coroutine function"
    THEN TypeError(ts, "should be called prior to being scheduled")
    ELSE IF coro.kind = "async generator"
    THEN TypeError(ts, "is an async generator, not a coroutine")
    ELSE TypeError(ts, "isn't a coroutine")

\* the value a task identity stands for in a call: the Task once there is
\* one, until then the coroutine it will own
ValueOf(ts, x) ==
    IF ts[x] # "absent" THEN [kind |-> "Task", id |-> x, abc |-> FALSE]
    ELSE [kind |-> "Coroutine", id |-> x, abc |-> TRUE]

(***************************************************************************)
(* start_soon(coro): what the call leaves behind                           *)
(***************************************************************************)
\* a start_soon that runs the task to its first await before it returns
start_soon_eager(coro) ==
    [tstate         |-> [tstate EXCEPT ![coro] = "suspended"],
     done_callbacks |-> _add_done_callback(done_callbacks, coro, "_task_done_callback"),
     scheduled      |-> scheduled,
     turns          |-> [turns EXCEPT ![coro] = @ + 1]]

start_soon(coro) ==
    [tstate         |-> create_task(tstate, ValueOf(tstate, coro)).tstate,
     done_callbacks |-> _add_done_callback(done_callbacks, coro, "_task_done_callback"),
     scheduled      |-> _schedule_task(scheduled, coro),
     turns          |-> turns]

(***************************************************************************)
(* start(coro) called by task caller: start_soon, then await NullTrigger() *)
(***************************************************************************)
\* a start whose caller is resumed ahead of the tasks already queued
start_resume_first(caller, coro) ==
    LET r == start_soon(coro)
    IN  [r EXCEPT !.tstate    = [r.tstate EXCEPT ![caller] = "suspended"],
                  !.scheduled = <<caller>> \o r.scheduled]

start(caller, coro) ==
    LET r == start_soon(coro)
    IN  [r EXCEPT !.tstate    = [r.tstate EXCEPT ![caller] = "suspended"],
                  !.scheduled = NullTrigger(r.scheduled, caller)]

(***************************************************************************)
(* Task._set_outcome: the terminal transition.  The done callbacks run     *)
(* while the waiters of task.complete are still registered; then the       *)
(* scheduler fires task.complete and queues the waiters.                   *)
(***************************************************************************)
SetOutcome(task, is_cancelled, e, q) ==
    LET n     == Len(done_callbacks[task])
        calls == [i \in 1..n |->
                    _task_done_callback(task, is_cancelled, e, trigger2tasks)]
        woken == SelectSeq(trigger2tasks[task], LAMBDA w : w \notin Range(q))
    IN  /\ tstate' = [tstate EXCEPT ![task] = "done"]
        /\ cancelled' = [cancelled EXCEPT ![task] = is_cancelled]
        /\ exc' = [exc EXCEPT ![task] = e]
        /\ abort_calls' = abort_calls \o Concat([i \in 1..n |-> calls[i].aborts])
        /\ task_log' = task_log \o Concat([i \in 1..n |-> calls[i].logs])
        /\ monitor_calls' = [monitor_calls EXCEPT ![task] = @ + n]
        /\ watched' = [watched EXCEPT ![task] = trigger2tasks[task] # <<>>]
        /\ scheduled' = Without(q, task) \o woken
        /\ trigger2tasks' = [trigger2tasks EXCEPT ![task] = <<>>]
        /\ current' = NoTask

(***************************************************************************)
(* The operations of a running task                                        *)
(***************************************************************************)
InBody(c) == current = c /\ tpc[c] = "body"

\* a call made by a task body, counted against the bound
Call == ops < MaxOps /\ ops' = ops + 1

\* c calls create_task(coro) on a fresh coroutine
CreateTask(c, x) ==
    /\ InBody(c)
    /\ Call
    /\ tstate[x] = "absent"
    /\ tstate' = create_task(tstate, ValueOf(tstate, x)).tstate
    /\ UNCHANGED <<cancelled, exc, done_callbacks, cancel_req, tpc, scheduled,
                   trigger2tasks, timer_waiters, current, abort_calls, task_log,
                   monitor_calls, watched, turns, start_snap>>
    /\ UNCHANGED <<ret, bootVars>>

\* the inputs start_soon / start are given: a fresh coroutine or a Task that
\* has not started yet
Spawnable(c, x) ==
    /\ x # c
    /\ tstate[x] \in {"absent", "pending"}

\* c calls start_soon(x)
StartSoon(c, x) ==
    /\ InBody(c)
    /\ Call
    /\ Spawnable(c, x)
    /\ LET r == start_soon(x)
       IN  /\ tstate' = r.tstate
           /\ done_callbacks' = r.done_callbacks
           /\ scheduled' = r.scheduled
           /\ turns' = r.turns
    /\ UNCHANGED <<cancelled, exc, cancel_req, tpc, trigger2tasks, timer_waiters,
                   current, abort_calls, task_log, monitor_calls, watched,
                   start_snap>>
    /\ UNCHANGED <<ret, bootVars>>

\* c calls `await start(x)` and is suspended on the NullTrigger
Start(c, x) ==
    /\ InBody(c)
    /\ Call
    /\ Spawnable(c, x)
    /\ LET r == start(c, x)
       IN  /\ tstate' = r.tstate
           /\ done_callbacks' = r.done_callbacks
           /\ scheduled' = r.scheduled
           /\ turns' = r.turns
           /\ start_snap' = [start_snap EXCEPT ![c] =
                  [queued |-> Range(start_soon(x).scheduled) \ {c},
                   turns  |-> turns,
                   active |-> TRUE]]
    /\ tpc' = [tpc EXCEPT ![c] = "start_await"]
    /\ current' = IF tstate'[c] = "suspended" THEN NoTask ELSE c
    /\ UNCHANGED <<cancelled, exc, cancel_req, trigger2tasks, timer_waiters,
                   abort_calls, task_log, monitor_calls, watched>>
    /\ UNCHANGED <<ret, bootVars>>

\* start() returns the task to c after c was resumed
StartReturn(c) ==
    /\ current = c
    /\ tpc[c] = "start_await"
    /\ tpc' = [tpc EXCEPT ![c] = "body"]
    /\ start_snap' = [start_snap EXCEPT ![c] = NoSnap]
    /\ UNCHANGED <<tstate, cancelled, exc, done_callbacks, cancel_req, scheduled,
                   trigger2tasks, timer_waiters, current, abort_calls, task_log,
                   monitor_calls, watched, turns>>
    /\ UNCHANGED ops
    /\ UNCHANGED <<ret, bootVars>>

\* c awaits a simulator trigger (a Timer, an edge)
AwaitTimer(c) ==
    /\ InBody(c)
    /\ Call
    /\ tstate' = [tstate EXCEPT ![c] = "suspended"]
    /\ timer_waiters' = timer_waiters \cup {c}
    /\ current' = NoTask
    /\ UNCHANGED <<cancelled, exc, done_callbacks, cancel_req, tpc, scheduled,
                   trigger2tasks, abort_calls, task_log, monitor_calls, watched,
                   turns, start_snap>>
    /\ UNCHANGED <<ret, bootVars>>

\* c awaits u.complete (`await u`)
AwaitComplete(c, u) ==
    /\ InBody(c)
    /\ Call
    /\ u # c
    /\ tstate[u] # "absent"
    /\ tstate' = [tstate EXCEPT ![c] = "suspended"]
    /\ IF tstate[u] = "done"
       THEN /\ scheduled' = _schedule_task(scheduled, c)
            /\ UNCHANGED trigger2tasks
       ELSE /\ trigger2tasks' = [trigger2tasks EXCEPT ![u] = Append(@, c)]
            /\ UNCHANGED scheduled
    /\ current' = NoTask
    /\ UNCHANGED <<cancelled, exc, done_callbacks, cancel_req, tpc, timer_waiters,
                   abort_calls, task_log, monitor_calls, watched, turns,
                   start_snap>>
    /\ UNCHANGED <<ret, bootVars>>

\* the body of c returns (e = None) or raises e
Finish(c, e) ==
    /\ InBody(c)
    /\ SetOutcome(c, FALSE, e, scheduled)
    /\ UNCHANGED <<done_callbacks, cancel_req, tpc, timer_waiters, turns,
                   start_snap>>
    /\ UNCHANGED ops
    /\ UNCHANGED <<ret, bootVars>>

\* c asks for u to be cancelled; the scheduler delivers the cancellation when
\* it next gives u control
Cancel(c, u) ==
    /\ InBody(c)
    /\ Call
    /\ u # c
    /\ tstate[u] \in {"pending", "suspended"}
    /\ ~cancel_req[u]
    /\ cancel_req' = [cancel_req EXCEPT ![u] = TRUE]
    /\ trigger2tasks' = [t \in Tasks |-> Without(trigger2tasks[t], u)]
    /\ timer_waiters' = timer_waiters \ {u}
    /\ scheduled' = _schedule_task(scheduled, u)
    /\ UNCHANGED <<tstate, cancelled, exc, done_callbacks, tpc, current,
                   abort_calls, task_log, monitor_calls, watched, turns,
                   start_snap>>
    /\ UNCHANGED <<ret, bootVars>>

(***************************************************************************)
(* The scheduler                                                           *)
(***************************************************************************)
\* the event loop takes the head of the queue and gives it control; a task
\* with a cancellation pending ends Cancelled, with or without an error of
\* its own on record
SchedulerResume ==
    /\ current = NoTask
    /\ scheduled # <<>>
    /\ LET t == Head(scheduled)
       IN  /\ turns' = [turns EXCEPT ![t] = @ + 1]
           /\ IF cancel_req[t]
              THEN /\ \E e \in {None, "ValueError"} :
                          SetOutcome(t, TRUE, e, Tail(scheduled))
                   /\ cancel_req' = [cancel_req EXCEPT ![t] = FALSE]
              ELSE /\ tstate' = [tstate EXCEPT ![t] = "running"]
                   /\ scheduled' = Tail(scheduled)
                   /\ current' = t
                   /\ UNCHANGED <<cancelled, exc, cancel_req, trigger2tasks,
                                  abort_calls, task_log, monitor_calls, watched>>
    /\ UNCHANGED <<done_callbacks, tpc, timer_waiters, start_snap>>
    /\ UNCHANGED ops
    /\ UNCHANGED <<ret, bootVars>>

\* the simulator, given control because nothing is queued, fires the trigger
\* a task is suspended on
TimerFire(t) ==
    /\ current = NoTask
    /\ scheduled = <<>>
    /\ t \in timer_waiters
    /\ timer_waiters' = timer_waiters \ {t}
    /\ scheduled' = _schedule_task(scheduled, t)
    /\ UNCHANGED <<tstate, cancelled, exc, done_callbacks, cancel_req, tpc,
                   trigger2tasks, current, abort_calls, task_log, monitor_calls,
                   watched, turns, start_snap>>
    /\ UNCHANGED ops
    /\ UNCHANGED <<ret, bootVars>>

(***************************************************************************)
(*                       The bootstrap                                     *)
(*                                                                         *)
(* Strings are sequences of one-character strings.  Unset is an            *)
(* environment variable that is not set (os.getenv returns None).          *)
(***************************************************************************)
Unset == <<"<unset>">>

Digits == {"0", "1", "2", "3", "4", "5", "6", "7", "8", "9"}

DigitVal(ch) ==
    CASE ch = "0" -> 0 [] ch = "1" -> 1 [] ch = "2" -> 2 [] ch = "3" -> 3
      [] ch = "4" -> 4 [] ch = "5" -> 5 [] ch = "6" -> 6 [] ch = "7" -> 7
      [] ch = "8" -> 8 [] ch = "9" -> 9

Whitespace == {" ", "\t", "\n"}

\* str.lstrip() / str.rstrip() / str.strip()
RECURSIVE LStrip(_)
LStrip(s) ==
    IF s # <<>> /\ Head(s) \in Whitespace THEN LStrip(Tail(s)) ELSE s

RECURSIVE RStrip(_)
RStrip(s) ==
    IF s # <<>> /\ s[Len(s)] \in Whitespace
    THEN RStrip(SubSeq(s, 1, Len(s) - 1))
    ELSE s

Strip(s) == RStrip(LStrip(s))

\* str.find(ch): the index of the first occurrence counted from 1, 0 if none
RECURSIVE FindFrom(_, _, _)
FindFrom(s, ch, i) ==
    IF i > Len(s) THEN 0
    ELSE IF s[i] = ch THEN i
    ELSE FindFrom(s, ch, i + 1)

Find(s, ch) == FindFrom(s, ch, 1)

\* str.split(ch, 1): at most one split, at the first occurrence
Split1(s, ch) ==
    LET i == Find(s, ch)
    IN  IF i = 0 THEN <<s>>
        ELSE <<SubSeq(s, 1, i - 1), SubSeq(s, i + 1, Len(s))>>

\* str.split(ch): every piece, empty ones included
RECURSIVE Split(_, _)
Split(s, ch) ==
    LET i == Find(s, ch)
    IN  IF i = 0 THEN <<s>>
        ELSE <<SubSeq(s, 1, i - 1)>> \o Split(SubSeq(s, i + 1, Len(s)), ch)

(***************************************************************************)
(* ast.literal_eval on the texts the model draws: decimal integers with    *)
(* unary signs, floats written digits.digits, quoted strings, True, False  *)
(* and None evaluate; anything else raises.                                *)
(***************************************************************************)
AllDigits(s) == s # <<>> /\ \A i \in DOMAIN s : s[i] \in Digits

RECURSIVE DecimalValue(_)
DecimalValue(s) ==
    IF s = <<>> THEN 0
    ELSE 10 * DecimalValue(SubSeq(s, 1, Len(s) - 1)) + DigitVal(s[Len(s)])

\* a decimal literal may not start with 0 unless every digit is 0
IsDecimalLiteral(s) ==
    /\ AllDigits(s)
    /\ (s[1] = "0" => \A i \in DOMAIN s : s[i] = "0")

\* digits on at least one side of the point
IsFloatLiteral(s) ==
    LET i     == Find(s, ".")
        whole == SubSeq(s, 1, i - 1)
        frac  == SubSeq(s, i + 1, Len(s))
    IN  /\ i > 0
        /\ whole = <<>> \/ AllDigits(whole)
        /\ frac = <<>> \/ AllDigits(frac)
        /\ whole # <<>> \/ frac # <<>>

IsStringLiteral(s) ==
    /\ Len(s) >= 2
    /\ s[1] = "'"
    /\ s[Len(s)] = "'"
    /\ \A i \in 2..(Len(s) - 1) : s[i] # "'"

NameChar(ch) == ch \notin Whitespace \cup {"-", "+", ".", "'", "=", ","}

IsName(s) ==
    /\ s # <<>>
    /\ s[1] \notin Digits
    /\ \A i \in DOMAIN s : NameChar(s[i])

Raises(e) == [ok |-> FALSE, type |-> e, val |-> 0]

Value(type, v) == [ok |-> TRUE, type |-> type, val |-> v]

\* a unary sign applies to a number literal only
RECURSIVE EvalExpr(_)
EvalExpr(s) ==
    IF s = <<>> THEN Raises("SyntaxError")
    ELSE IF Head(s) \in {"-", "+"}
    THEN LET rest == LStrip(Tail(s))
             r    == EvalExpr(rest)
         IN  IF IsDecimalLiteral(rest)
             THEN Value("int", IF Head(s) = "-" THEN 0 - r.val ELSE r.val)
             ELSE IF IsFloatLiteral(rest) THEN Value("float", 0)
             ELSE IF r.ok \/ r.type = "ValueError" THEN Raises("ValueError")
             ELSE Raises("SyntaxError")
    ELSE IF IsDecimalLiteral(s) THEN Value("int", DecimalValue(s))
    ELSE IF IsFloatLiteral(s) THEN Value("float", 0)
    ELSE IF IsStringLiteral(s) THEN Value("str", 0)
    ELSE IF s = <<"T", "r", "u", "e">> THEN Value("bool", 1)
    ELSE IF s = <<"F", "a", "l", "s", "e">> THEN Value("bool", 0)
    ELSE IF s = <<"N", "o", "n", "e">> THEN Value("NoneType", 0)
    ELSE IF IsName(s) THEN Raises("ValueError")
    ELSE Raises("SyntaxError")

\* literal_eval drops leading spaces and tabs; the parser ignores trailing ones
literal_eval(s) == EvalExpr(RStrip(LStrip(s)))

\* isinstance(v, int): bool is a subclass of int
IsInstanceInt(v) == v.type \in {"int", "bool"}

(***************************************************************************)
(* The texts the bootstrap compares against                                *)
(***************************************************************************)
ntb_random_seed == <<"n", "t", "b", "_", "r", "a", "n", "d", "o", "m", "_", "s", "e", "e", "d">>

seed == <<"s", "e", "e", "d">>

IcarusVerilog == <<"I", "c", "a", "r", "u", "s", " ", "V", "e", "r", "i", "l", "o", "g">>

getenv(name) == env[name]

(***************************************************************************)
(* The statements of _initialise_testbench, in the order of the code       *)
(***************************************************************************)
Steps ==
    <<"set_sim_event_callback", "is_simulation", "argv", "sys_path",
      "_setup_logging", "warnings_filter", "get_simulator_product",
      "_profiling_initialize", "_register_shutdown_callback",
      "_process_plusargs", "_process_packages", "_setup_random_seed",
      "_setup_root_handle", "_start_user_coverage",
      "_setup_regression_manager", "Scheduler", "start_regression">>

StepIndex(name) == CHOOSE i \in DOMAIN Steps : Steps[i] = name

\* an order in which the seed is resolved before the plusargs are parsed
NextStep_seed_before_plusargs(name) ==
    CASE name = "_register_shutdown_callback" -> "_setup_random_seed"
      [] name = "_setup_random_seed"          -> "_process_plusargs"
      [] name = "_process_plusargs"           -> "_process_packages"
      [] name = "_process_packages"           -> "_setup_root_handle"
      [] OTHER -> IF StepIndex(name) = Len(Steps) THEN "done"
                  ELSE Steps[StepIndex(name) + 1]

\* an order in which the root handle is resolved before the seed
NextStep_root_before_seed(name) ==
    CASE name = "_process_packages"  -> "_setup_root_handle"
      [] name = "_setup_root_handle" -> "_setup_random_seed"
      [] name = "_setup_random_seed" -> "_start_user_coverage"
      [] OTHER -> IF StepIndex(name) = Len(Steps) THEN "done"
                  ELSE Steps[StepIndex(name) + 1]

\* the statement that follows `name`
NextStep(name) ==
    IF StepIndex(name) = Len(Steps) THEN "done" ELSE Steps[StepIndex(name) + 1]

NoError == [type |-> "none", msg |-> "none", arg |-> <<>>]

\* a global that is only annotated does not exist until it is assigned
Defined(b, name) == name \in b.defined

Assign(b, name) == [b EXCEPT !.defined = @ \cup {name}]

\* raise: the exception leaves _initialise_testbench
Raise(b, type, msg, arg) ==
    [b EXCEPT !.error = [type |-> type, msg |-> msg, arg |-> arg]]

Failed(b) == b.error # NoError

\* log.<level>(msg): a NameError while the global log is not assigned
Log(b, level, msg) ==
    IF Failed(b) THEN b
    ELSE IF ~Defined(b, "log") THEN Raise(b, "NameError", "log", <<>>)
    ELSE [b EXCEPT !.log_calls = Append(@, [level |-> level, msg |-> msg])]

Warn(b, msg) == [b EXCEPT !.warnings = Append(@, msg)]

\* os.getenv(name), remembered as read
ReadEnv(b, name) == [b EXCEPT !.getenv_calls = Append(@, name)]

(***************************************************************************)
(* _process_plusargs: the map built from cocotb.argv                       *)
(***************************************************************************)
FlagValue == [flag |-> TRUE, str |-> <<>>]

StrValue(v) == [flag |-> FALSE, str |-> v]

\* plusargs[name] = value
SetItem(map, name, value) ==
    [n \in DOMAIN map \cup {name} |-> IF n = name THEN value ELSE map[n]]

EmptyMap == [n \in {} |-> FlagValue]

\* a parser in which the first occurrence of a name is the one kept
RECURSIVE PlusargsOf_keep_first(_, _)
PlusargsOf_keep_first(options, map) ==
    IF options = <<>> THEN map
    ELSE LET option == Head(options)
             nv     == Split1(Tail(option), "=")
             name   == IF Find(option, "=") # 0 THEN nv[1] ELSE Tail(option)
             value  == IF Find(option, "=") # 0 THEN StrValue(nv[2]) ELSE FlagValue
         IN  IF option # <<>> /\ Head(option) = "+" /\ name \notin DOMAIN map
             THEN PlusargsOf_keep_first(Tail(options), SetItem(map, name, value))
             ELSE PlusargsOf_keep_first(Tail(options), map)

RECURSIVE PlusargsOf(_, _)
PlusargsOf(options, map) ==
    IF options = <<>> THEN map
    ELSE LET option == Head(options)
         IN  IF option # <<>> /\ Head(option) = "+"
             THEN IF Find(option, "=") # 0
                  THEN LET nv == Split1(Tail(option), "=")
                       IN  PlusargsOf(Tail(options),
                                      SetItem(map, nv[1], StrValue(nv[2])))
                  ELSE PlusargsOf(Tail(options),
                                  SetItem(map, Tail(option), FlagValue))
             ELSE PlusargsOf(Tail(options), map)

_process_plusargs(b) ==
    IF ~Defined(b, "argv") THEN Raise(b, "NameError", "argv", <<>>)
    ELSE [Assign(b, "plusargs") EXCEPT !.plusargs = PlusargsOf(b.argv, EmptyMap)]

(***************************************************************************)
(* _setup_random_seed                                                      *)
(***************************************************************************)
\* random.seed(v) and the assignment of _random_seed
SeedWith(b, v, msg) ==
    LET b1 == [Assign(b, "_random_seed") EXCEPT !._random_seed = v]
        b2 == Log(b1, "info", msg)
    IN  IF Failed(b2) THEN b2
        ELSE [b2 EXCEPT !.random_seed_calls = Append(@, v)]

\* the branch for one plusarg, already known to be in plusargs
SeedFromPlusarg(b, name, label) ==
    LET plusarg_seed == b.plusargs[name]
        v == literal_eval(plusarg_seed.str)
    IN  IF plusarg_seed.flag
        THEN Raise(b, "TypeError", "plusarg is not a valid seed value", <<label>>)
        ELSE IF ~v.ok THEN Raise(b, v.type, "literal_eval", <<label>>)
        ELSE IF ~IsInstanceInt(v)
        THEN Raise(b, "TypeError", "plusargs is not a valid seed value", <<label>>)
        ELSE SeedWith([b EXCEPT !.seed_source = label], v,
                      "Seeding Python random module with %d")

Consult(b, source) == [b EXCEPT !.consulted = Append(@, source)]

DeprecatedSeedWarning == "RANDOM_SEED is deprecated in favor of COCOTB_RANDOM_SEED"

\* a seed_envvar lookup that warns whenever RANDOM_SEED is set
SeedEnvvar_warn_if_present(b) ==
    LET primary    == getenv("COCOTB_RANDOM_SEED")
        deprecated == getenv("RANDOM_SEED")
        b1 == Consult(ReadEnv(b, "COCOTB_RANDOM_SEED"), "COCOTB_RANDOM_SEED")
        b2 == Consult(ReadEnv(b1, "RANDOM_SEED"), "RANDOM_SEED")
    IN  [b      |-> IF deprecated # Unset THEN Warn(b2, DeprecatedSeedWarning) ELSE b2,
         value  |-> IF primary # Unset THEN primary ELSE deprecated,
         source |-> IF primary # Unset THEN "COCOTB_RANDOM_SEED" ELSE "RANDOM_SEED"]

\* lines 412-419: seed_envvar, the variable it came from, and the reads and
\* the warning made on the way
SeedEnvvar(b) ==
    LET primary    == getenv("COCOTB_RANDOM_SEED")
        deprecated == getenv("RANDOM_SEED")
        b1 == Consult(ReadEnv(b, "COCOTB_RANDOM_SEED"), "COCOTB_RANDOM_SEED")
        b2 == Consult(ReadEnv(b1, "RANDOM_SEED"), "RANDOM_SEED")
    IN  IF primary # Unset
        THEN [b |-> b1, value |-> primary, source |-> "COCOTB_RANDOM_SEED"]
        ELSE [b      |-> IF deprecated # Unset
                         THEN Warn(b2, DeprecatedSeedWarning)
                         ELSE b2,
              value  |-> deprecated,
              source |-> "RANDOM_SEED"]

\* a plusarg chain that looks at +seed before +ntb_random_seed
SeedFromPlusargs_seed_first(b) ==
    LET b3 == Consult(b, "seed")
        b4 == Consult(b3, "ntb_random_seed")
    IN  IF seed \in DOMAIN b.plusargs
        THEN SeedFromPlusarg(b3, seed, "seed")
        ELSE IF ntb_random_seed \in DOMAIN b.plusargs
        THEN SeedFromPlusarg(b4, ntb_random_seed, "ntb_random_seed")
        ELSE SeedWith([Consult(b4, "time") EXCEPT !.seed_source = "time"],
                      Value("int", sim.now),
                      "Seeding Python random module with %d")

\* lines 421-439: no seed in the environment
SeedFromPlusargs(b) ==
    LET b3 == Consult(b, "ntb_random_seed")
        b4 == Consult(b3, "seed")
    IN  IF ntb_random_seed \in DOMAIN b.plusargs
        THEN SeedFromPlusarg(b3, ntb_random_seed, "ntb_random_seed")
        ELSE IF seed \in DOMAIN b.plusargs
        THEN SeedFromPlusarg(b4, seed, "seed")
        ELSE SeedWith([Consult(b4, "time") EXCEPT !.seed_source = "time"],
                      Value("int", sim.now),
                      "Seeding Python random module with %d")

_setup_random_seed(b) ==
    LET e == SeedEnvvar(b)
        v == literal_eval(e.value)
    IN  IF e.value = Unset
        THEN IF ~Defined(e.b, "plusargs")
             THEN Raise(e.b, "NameError", "plusargs", <<>>)
             ELSE SeedFromPlusargs(e.b)
        ELSE IF ~v.ok THEN Raise(e.b, v.type, "literal_eval", <<e.source>>)
        ELSE SeedWith([e.b EXCEPT !.seed_source = e.source], v,
                      "Seeding Python random module with supplied seed %d")

(***************************************************************************)
(* The statements of _initialise_testbench before _process_plusargs        *)
(***************************************************************************)
set_sim_event_callback(b) == [b EXCEPT !.sim_event_callback = "_sim_event"]

set_is_simulation(b) == [b EXCEPT !.is_simulation = TRUE]

set_argv(b) == [Assign(b, "argv") EXCEPT !.argv = argv_]

\* sys.path.insert(0, "")
sys_path_insert(b) == [b EXCEPT !.sys_path = << <<>> >> \o @]

_setup_logging(b) ==
    [Assign(b, "log") EXCEPT !.logging_configured = TRUE, !.c_logger = TRUE]

\* if not sys.warnoptions: warnings.simplefilter("default")
warnings_filter(b) ==
    IF ~sim.warnoptions THEN [b EXCEPT !.warn_filter = "default"] ELSE b

get_simulator_product(b) ==
    LET b1 == [Assign(Assign(b, "SIM_NAME"), "SIM_VERSION")
                 EXCEPT !.SIM_NAME = Strip(sim.product),
                        !.SIM_VERSION = Strip(sim.version)]
        b2 == Log(b1, "info", "Running on SIM_NAME version SIM_VERSION")
    IN  Log(b2, "info", "Running tests with cocotb")

_profiling_initialize(b) == [b EXCEPT !.profiling = TRUE]

_register_shutdown_callback(b, cb) ==
    [b EXCEPT !._shutdown_callbacks = Append(@, cb)]

(***************************************************************************)
(* _process_packages                                                       *)
(***************************************************************************)
RECURSIVE DiscoverPackages(_, _)
DiscoverPackages(b, pkgs) ==
    IF pkgs = <<>> \/ Failed(b) THEN b
    ELSE IF ~Defined(b, "SIM_NAME") THEN Raise(b, "NameError", "SIM_NAME", <<>>)
    ELSE LET name == Head(pkgs)
             b1   == IF b.SIM_NAME = IcarusVerilog
                     THEN [b EXCEPT !.discover_all_calls = Append(@, name)]
                     ELSE b
         IN  DiscoverPackages([b1 EXCEPT !.packages = @ \cup {name}], Tail(pkgs))

_process_packages(b) ==
    IF sim.packages.none
    THEN [Assign(b, "packages") EXCEPT !.packages = {}]
    ELSE LET r == DiscoverPackages([b EXCEPT !.packages = {}], sim.packages.names)
         IN  IF Failed(r) THEN r ELSE Assign(r, "packages")

(***************************************************************************)
(* _setup_root_handle                                                      *)
(***************************************************************************)
\* a root name that keeps only what follows the last '.'
RootName_after_last_dot(raw) ==
    IF raw = Unset THEN Unset
    ELSE LET root_name == Strip(raw)
             dots      == {i \in DOMAIN root_name : root_name[i] = "."}
             last      == CHOOSE i \in dots : \A j \in dots : j <= i
         IN  IF root_name = <<>> THEN Unset
             ELSE IF dots # {} THEN SubSeq(root_name, last + 1, Len(root_name))
             ELSE root_name

\* the name handed to simulator.get_root_handle; Unset stands for None
RootName(raw) ==
    IF raw = Unset THEN Unset
    ELSE LET root_name == Strip(raw)
         IN  IF root_name = <<>> THEN Unset
             ELSE IF Find(root_name, ".") # 0 THEN Split1(root_name, ".")[2]
             ELSE root_name

_setup_root_handle(b) ==
    LET root_name == RootName(getenv("COCOTB_TOPLEVEL"))
        b1 == [ReadEnv(b, "COCOTB_TOPLEVEL") EXCEPT !.root_queries = Append(@, root_name)]
    IN  IF ~sim.root_found
        THEN Raise(b1, "RuntimeError", "Can not find root handle", root_name)
        ELSE [Assign(b1, "top") EXCEPT !.top = root_name]

(***************************************************************************)
(* _start_user_coverage                                                    *)
(***************************************************************************)
\* the truth value of an os.getenv result
Truthy(v) == v # Unset /\ v # <<>>

_start_user_coverage(b) ==
    LET primary == getenv("COCOTB_USER_COVERAGE")
        b1 == ReadEnv(b, "COCOTB_USER_COVERAGE")
        b2 == IF primary # Unset THEN b1
              ELSE LET r == ReadEnv(b1, "COVERAGE")
                   IN  IF getenv("COVERAGE") # Unset
                       THEN Warn(r, "COVERAGE is deprecated in favor of COCOTB_USER_COVERAGE")
                       ELSE r
        coverage_envvar == IF primary # Unset THEN primary ELSE getenv("COVERAGE")
        rc == getenv("COCOTB_COVERAGE_RCFILE")
        b3 == ReadEnv(b2, "COCOTB_COVERAGE_RCFILE")
        b4 == IF rc # Unset THEN b3
              ELSE LET r == ReadEnv(b3, "COVERAGE_RCFILE")
                   IN  IF getenv("COVERAGE_RCFILE") # Unset
                       THEN Warn(r, "COVERAGE_RCFILE is deprecated in favor of COCOTB_COVERAGE_RCFILE")
                       ELSE r
        config_filepath == IF rc # Unset THEN rc ELSE getenv("COVERAGE_RCFILE")
        b5 == IF config_filepath = Unset
              THEN Log(b4, "info", "Collecting coverage of user code. No coverage config file supplied")
              ELSE Log(b4, "info", "Collecting coverage of user code. Coverage config file supplied.")
    IN  IF ~Truthy(coverage_envvar) THEN b2
        ELSE IF ~sim.coverage_module
        THEN Log(b2, "error", "Coverage collection requested but coverage module not available")
        ELSE IF Failed(b5) THEN b5
        ELSE _register_shutdown_callback(
                 [b5 EXCEPT !.coverage = IF config_filepath = Unset
                                         THEN "started, cocotb omitted"
                                         ELSE "started, config file"],
                 "stop_user_coverage")

(***************************************************************************)
(* _setup_regression_manager                                               *)
(***************************************************************************)
\* os.getenv(name, "")
GetenvOrEmpty(name) == IF getenv(name) = Unset THEN <<>> ELSE getenv(name)

\* [s.strip() for s in text.split(",") if s.strip()]
StrippedParts(text) ==
    LET parts == Split(text, ",")
        kept  == SelectSeq(parts, LAMBDA x : Strip(x) # <<>>)
    IN  [i \in DOMAIN kept |-> Strip(kept[i])]

RmCall(b, op, args) == [b EXCEPT !.rm_calls = Append(@, [op |-> op, args |-> args])]

BothFiltersError == "Specify only one of COCOTB_TESTCASE or COCOTB_TEST_FILTER"

\* a version that rejects the two filters before it discovers the tests
_setup_regression_manager_filters_first(b) ==
    LET b0 == RmCall(Assign(b, "regression_manager"), "RegressionManager", <<>>)
        module_str == GetenvOrEmpty("COCOTB_TEST_MODULES")
        b1 == ReadEnv(b0, "COCOTB_TEST_MODULES")
        modules == StrippedParts(module_str)
        b2 == RmCall(RmCall(b1, "setup_pytest_assertion_rewriting", <<>>),
                     "discover_tests", modules)
        testcase_str == Strip(GetenvOrEmpty("COCOTB_TESTCASE"))
        test_filter_str == Strip(GetenvOrEmpty("COCOTB_TEST_FILTER"))
        b3 == ReadEnv(ReadEnv(b2, "COCOTB_TESTCASE"), "COCOTB_TEST_FILTER")
        parts == StrippedParts(testcase_str)
        filters == [i \in DOMAIN parts |-> parts[i] \o <<"$">>]
    IN  IF module_str = <<>>
        THEN Raise(b1, "RuntimeError",
                   "Environment variable COCOTB_TEST_MODULES is not defined or empty", <<>>)
        ELSE IF testcase_str # <<>> /\ test_filter_str # <<>>
        THEN Raise(b1, "RuntimeError", BothFiltersError, <<>>)
        ELSE IF testcase_str # <<>>
        THEN RmCall(RmCall(Warn(b3, "TESTCASE is deprecated in favor of COCOTB_TEST_FILTER"),
                           "add_filters", filters),
                    "set_mode", <<"TESTCASE">>)
        ELSE IF test_filter_str # <<>>
        THEN RmCall(RmCall(b3, "add_filters", <<test_filter_str>>),
                    "set_mode", <<"TESTCASE">>)
        ELSE b3

_setup_regression_manager(b) ==
    LET b0 == RmCall(Assign(b, "regression_manager"), "RegressionManager", <<>>)
        module_str == GetenvOrEmpty("COCOTB_TEST_MODULES")
        b1 == ReadEnv(b0, "COCOTB_TEST_MODULES")
        modules == StrippedParts(module_str)
        b2 == RmCall(RmCall(b1, "setup_pytest_assertion_rewriting", <<>>),
                     "discover_tests", modules)
        testcase_str == Strip(GetenvOrEmpty("COCOTB_TESTCASE"))
        test_filter_str == Strip(GetenvOrEmpty("COCOTB_TEST_FILTER"))
        b3 == ReadEnv(ReadEnv(b2, "COCOTB_TESTCASE"), "COCOTB_TEST_FILTER")
        parts == StrippedParts(testcase_str)
        filters == [i \in DOMAIN parts |-> parts[i] \o <<"$">>]
    IN  IF module_str = <<>>
        THEN Raise(b1, "RuntimeError",
                   "Environment variable COCOTB_TEST_MODULES is not defined or empty", <<>>)
        ELSE IF testcase_str # <<>> /\ test_filter_str # <<>>
        THEN Raise(b3, "RuntimeError", BothFiltersError, <<>>)
        ELSE IF testcase_str # <<>>
        THEN RmCall(RmCall(Warn(b3, "TESTCASE is deprecated in favor of COCOTB_TEST_FILTER"),
                           "add_filters", filters),
                    "set_mode", <<"TESTCASE">>)
        ELSE IF test_filter_str # <<>>
        THEN RmCall(RmCall(b3, "add_filters", <<test_filter_str>>),
                    "set_mode", <<"TESTCASE">>)
        ELSE b3

\* _scheduler_inst = Scheduler(test_complete_cb=regression_manager._test_complete)
new_Scheduler(b) ==
    IF ~Defined(b, "regression_manager")
    THEN Raise(b, "NameError", "regression_manager", <<>>)
    ELSE [Assign(b, "_scheduler_inst") EXCEPT
             !.test_complete_cb = "regression_manager._test_complete"]

start_regression(b) ==
    IF ~Defined(b, "regression_manager")
    THEN Raise(b, "NameError", "regression_manager", <<>>)
    ELSE RmCall(b, "start_regression", <<>>)

(***************************************************************************)
(* _shutdown_testbench and _sim_event                                      *)
(*                                                                         *)
(* A shutdown callback is known by its name.  The two the bootstrap        *)
(* registers return normally; of the callbacks other code registers one    *)
(* returns normally, one raises, and one registers a further callback      *)
(* while it runs.                                                          *)
(***************************************************************************)
UserCallbacks == {"cb_plain", "cb_raises", "cb_registers"}

CallbackRaises(cb) == cb = "cb_raises"

\* cb(): what the call does to the module
CallCallback(b, cb) ==
    IF cb = "cb_registers" THEN _register_shutdown_callback(b, "cb_plain") ELSE b

\* a loop that calls a callback only at its first position in the list
RECURSIVE ShutdownLoop_first_position_only(_, _, _)
ShutdownLoop_first_position_only(b, i, invoked) ==
    CHOOSE r \in
        { IF i > Len(v._shutdown_callbacks)
          THEN [b |-> v, invoked |-> invoked, raised |-> FALSE]
          ELSE IF v._shutdown_callbacks[i] \in Range(invoked)
          THEN ShutdownLoop_first_position_only(v, i + 1, invoked)
          ELSE IF CallbackRaises(v._shutdown_callbacks[i])
          THEN [b |-> v, invoked |-> Append(invoked, v._shutdown_callbacks[i]),
                raised |-> TRUE]
          ELSE ShutdownLoop_first_position_only(
                   CallCallback(v, v._shutdown_callbacks[i]), i + 1,
                   Append(invoked, v._shutdown_callbacks[i])) : v \in {b} } : TRUE

\* for cb in _shutdown_callbacks: cb() -- from position i on; the loop sees a
\* callback appended while it runs, and an exception of a callback ends it
RECURSIVE ShutdownLoop(_, _, _)
ShutdownLoop(b, i, invoked) ==
    CHOOSE r \in
        { IF i > Len(v._shutdown_callbacks)
          THEN [b |-> v, invoked |-> invoked, raised |-> FALSE]
          ELSE IF CallbackRaises(v._shutdown_callbacks[i])
          THEN [b |-> v, invoked |-> Append(invoked, v._shutdown_callbacks[i]),
                raised |-> TRUE]
          ELSE ShutdownLoop(CallCallback(v, v._shutdown_callbacks[i]), i + 1,
                            Append(invoked, v._shutdown_callbacks[i])) : v \in {b} } : TRUE

\* one call of _shutdown_testbench, remembered with the callbacks it invoked
_shutdown_testbench(b) ==
    LET r == ShutdownLoop(b, 1, <<>>)
    IN  [r.b EXCEPT !.shutdown_runs =
            Append(@, [at_entry   |-> b._shutdown_callbacks,
                       invoked    |-> r.invoked,
                       registered |-> r.b._shutdown_callbacks,
                       raised     |-> r.raised])]

\* no statement of the module binds regression_manager to None: the name is
\* either unbound or bound to the RegressionManager
RegressionManagerIsNone(b) == FALSE

SimEventDone(b, msg, error, reported) ==
    [b EXCEPT !.sim_events = Append(@, [msg |-> msg, error |-> error,
                                        reported |-> reported,
                                        run |-> Len(b.shutdown_runs)])]

\* _sim_event(msg); an exception it raises goes to the simulator, its caller
_sim_event(b, msg) ==
    IF ~Defined(b, "regression_manager")
    THEN SimEventDone(b, msg, "NameError", "none")
    ELSE IF ~RegressionManagerIsNone(b)
    THEN LET r == _shutdown_testbench(RmCall(b, "_fail_simulation", <<msg>>))
         IN  SimEventDone(r, msg,
                          IF r.shutdown_runs[Len(r.shutdown_runs)].raised
                          THEN "callback" ELSE "none",
                          "_fail_simulation")
    ELSE IF ~Defined(b, "log")
    THEN SimEventDone(b, msg, "NameError", "none")
    ELSE LET r == _shutdown_testbench(
                      [b EXCEPT !.log_calls = Append(@, [level |-> "error", msg |-> msg])])
         IN  SimEventDone(r, msg,
                          IF r.shutdown_runs[Len(r.shutdown_runs)].raised
                          THEN "callback" ELSE "none",
                          "log.error")

(***************************************************************************)
(* _initialise_testbench, one statement at a time                          *)
(***************************************************************************)
Body(name, b) ==
    CASE name = "set_sim_event_callback"      -> set_sim_event_callback(b)
      [] name = "is_simulation"               -> set_is_simulation(b)
      [] name = "argv"                        -> set_argv(b)
      [] name = "sys_path"                    -> sys_path_insert(b)
      [] name = "_setup_logging"              -> _setup_logging(b)
      [] name = "warnings_filter"             -> warnings_filter(b)
      [] name = "get_simulator_product"       -> get_simulator_product(b)
      [] name = "_profiling_initialize"       -> _profiling_initialize(b)
      [] name = "_register_shutdown_callback" ->
             _register_shutdown_callback(b, "cocotb._profiling.finalize")
      [] name = "_process_plusargs"           -> _process_plusargs(b)
      [] name = "_process_packages"           -> _process_packages(b)
      [] name = "_setup_random_seed"          -> _setup_random_seed(b)
      [] name = "_setup_root_handle"          -> _setup_root_handle(b)
      [] name = "_start_user_coverage"        -> _start_user_coverage(b)
      [] name = "_setup_regression_manager"   -> _setup_regression_manager(b)
      [] name = "Scheduler"                   -> new_Scheduler(b)
      [] name = "start_regression"            -> start_regression(b)

\* a bootstrap in which an exception does not end _initialise_testbench
Run_continue_on_error(name, b) ==
    LET r == Body(name, b)
    IN  [r EXCEPT !.pc = NextStep(name), !.trace = Append(@, name)]

\* the statement `name` runs: on an exception the bootstrap ends, otherwise
\* control moves to the next statement
Run(name, b) ==
    LET r == Body(name, b)
    IN  [r EXCEPT !.pc    = IF Failed(r) THEN "failed" ELSE NextStep(name),
                  !.trace = Append(@, name)]

\* _initialise_testbench run from statement b.pc to its end
RECURSIVE RunFrom(_)
RunFrom(b) ==
    CHOOSE r \in { IF v.pc \in {"done", "failed"} THEN v ELSE RunFrom(Run(v.pc, v)) :
                      v \in {b} } : TRUE

\* the module as imported, before _initialise_testbench is called
Imported ==
    [pc |-> Steps[1], trace |-> <<>>, error |-> NoError, defined |-> {},
     sim_event_callback |-> "none", is_simulation |-> FALSE, argv |-> <<>>,
     sys_path |-> << <<"l", "i", "b">> >>,
     logging_configured |-> FALSE, c_logger |-> FALSE,
     warn_filter |-> IF sim.warnoptions THEN "user" ELSE "unset",
     SIM_NAME |-> <<>>, SIM_VERSION |-> <<>>, profiling |-> FALSE,
     _shutdown_callbacks |-> <<>>, plusargs |-> EmptyMap, packages |-> {},
     discover_all_calls |-> <<>>, _random_seed |-> Value("unset", 0),
     seed_source |-> "none", random_seed_calls |-> <<>>, consulted |-> <<>>,
     getenv_calls |-> <<>>, warnings |-> <<>>, root_queries |-> <<>>,
     top |-> <<>>, coverage |-> "off", rm_calls |-> <<>>,
     test_complete_cb |-> "none", log_calls |-> <<>>,
     shutdown_runs |-> <<>>, sim_events |-> <<>>, registrations |-> 0]

(***************************************************************************)
(* The inputs of a session                                                 *)
(***************************************************************************)
Plain == <<"s", "i", "m">>

PlusArg(name, text) == <<"+">> \o name \o <<"=">> \o text

PlusFlag(name) == <<"+">> \o name

BootArgvs ==
    { <<Plain>>,
      <<Plain, PlusArg(seed, <<"9", "9">>)>>,
      <<Plain, PlusFlag(seed)>> }

\* os.environ from the values of the ten variables, in the order of the fields
EnvOf(rs, ors, top, cov, ocov, rc, orc, mods, tc, tf) ==
    [COCOTB_RANDOM_SEED     |-> rs,
     RANDOM_SEED            |-> ors,
     COCOTB_TOPLEVEL        |-> top,
     COCOTB_USER_COVERAGE   |-> cov,
     COVERAGE               |-> ocov,
     COCOTB_COVERAGE_RCFILE |-> rc,
     COVERAGE_RCFILE        |-> orc,
     COCOTB_TEST_MODULES    |-> mods,
     COCOTB_TESTCASE        |-> tc,
     COCOTB_TEST_FILTER     |-> tf]

SimOf(root_found, coverage_module, packages, product, warnoptions, now) ==
    [root_found |-> root_found, coverage_module |-> coverage_module,
     packages |-> packages, product |-> product,
     version |-> <<"1", "2", ".", "0", " ">>, warnoptions |-> warnoptions, now |-> now]

NoPackages == [none |-> TRUE, names |-> <<>>]

OnePackage == [none |-> FALSE, names |-> << <<"p", "k", "g">> >>]

\* int(time.time()) at the moment the seed is resolved
Now == {1700000000}

\* a session in which every step succeeds
NominalEnv ==
    EnvOf(Unset, Unset, <<"w", "o", "r", "k", ".", "t", "o", "p">>, Unset, Unset, Unset, Unset,
          <<"a", ",", " ", "b">>, Unset, Unset)

NominalSim == SimOf(TRUE, TRUE, NoPackages, <<"O", "t", "h", "e", "r">>, FALSE, 1700000000)

\* no task exists before the regression starts
TaskIdle ==
    /\ tstate = [t \in Tasks |-> "absent"]
    /\ cancelled = [t \in Tasks |-> FALSE]
    /\ exc = [t \in Tasks |-> None]
    /\ done_callbacks = [t \in Tasks |-> <<>>]
    /\ cancel_req = [t \in Tasks |-> FALSE]
    /\ tpc = [t \in Tasks |-> "body"]
    /\ scheduled = <<>>
    /\ trigger2tasks = [t \in Tasks |-> <<>>]
    /\ timer_waiters = {}
    /\ current = NoTask
    /\ abort_calls = <<>>
    /\ task_log = <<>>
    /\ monitor_calls = [t \in Tasks |-> 0]
    /\ watched = [t \in Tasks |-> FALSE]
    /\ turns = [t \in Tasks |-> 0]
    /\ ops = 0
    /\ start_snap = [t \in Tasks |-> NoSnap]
    /\ ret = NoRet

(***************************************************************************)
(* The bootstrap specification: the simulator calls _initialise_testbench  *)
(***************************************************************************)
Init ==
    /\ argv_ \in BootArgvs
    /\ \E random_seed \in {Unset, <<"4", "2">>},
          old_random_seed \in {Unset, <<"7">>},
          toplevel \in {Unset, <<" ", "w", "o", "r", "k", ".", "t", "o", "p">>},
          user_coverage \in {Unset, <<"1">>},
          test_modules \in {Unset, <<>>, <<"a", ",", " ", "b">>, <<" ", ",", " ">>},
          testcase \in {Unset, <<" ">>, <<"t", "1", ",", "t", "2">>},
          test_filter \in {Unset, <<"f", ".", "*">>} :
              env = EnvOf(random_seed, old_random_seed, toplevel, user_coverage,
                          Unset, Unset, Unset, test_modules, testcase, test_filter)
    /\ \E root_found \in BOOLEAN, coverage_module \in BOOLEAN,
          warnoptions \in BOOLEAN, now \in Now,
          pk \in { <<NoPackages, <<"O", "t", "h", "e", "r">>>>,
                   <<OnePackage, <<" ", "I", "c", "a", "r", "u", "s", " ", "V", "e", "r", "i", "l", "o", "g", "\n">>>> } :
              sim = SimOf(root_found, coverage_module, pk[1], pk[2], warnoptions, now)
    /\ boot = Imported
    /\ TaskIdle

BootStep(name) ==
    /\ boot.pc = name
    /\ boot' = Run(name, boot)
    /\ UNCHANGED <<env, argv_, sim, taskVars>>

Do_set_sim_event_callback == BootStep("set_sim_event_callback")

Do_is_simulation == BootStep("is_simulation")

Do_argv == BootStep("argv")

Do_sys_path == BootStep("sys_path")

Do_setup_logging == BootStep("_setup_logging")

Do_warnings_filter == BootStep("warnings_filter")

Do_get_simulator_product == BootStep("get_simulator_product")

Do_profiling_initialize == BootStep("_profiling_initialize")

Do_register_shutdown_callback == BootStep("_register_shutdown_callback")

Do_process_plusargs == BootStep("_process_plusargs")

Do_process_packages == BootStep("_process_packages")

Do_setup_random_seed == BootStep("_setup_random_seed")

Do_setup_root_handle == BootStep("_setup_root_handle")

Do_start_user_coverage == BootStep("_start_user_coverage")

Do_setup_regression_manager == BootStep("_setup_regression_manager")

Do_Scheduler == BootStep("Scheduler")

Do_start_regression == BootStep("start_regression")

Next ==
    \/ Do_set_sim_event_callback
    \/ Do_is_simulation
    \/ Do_argv
    \/ Do_sys_path
    \/ Do_setup_logging
    \/ Do_warnings_filter
    \/ Do_get_simulator_product
    \/ Do_profiling_initialize
    \/ Do_register_shutdown_callback
    \/ Do_process_plusargs
    \/ Do_process_packages
    \/ Do_setup_random_seed
    \/ Do_setup_root_handle
    \/ Do_start_user_coverage
    \/ Do_setup_regression_manager
    \/ Do_Scheduler
    \/ Do_start_regression

Spec == Init /\ [][Next]_vars



(***************************************************************************)
(* The seed specification: _process_plusargs to _setup_random_seed for     *)
(* every combination of seed sources                                       *)
(***************************************************************************)
SeedTexts ==
    { <<"4", "2">>, <<"7">>, <<" ", "0">>, <<"-", "3">>, <<"0", "0", "7">>,
      <<"x">>, <<>>, <<"1", ".", "5">>, <<"'", "a", "'">>, <<"T", "r", "u", "e">> }

SeedArgvs ==
    { <<Plain>>,
      <<PlusArg(ntb_random_seed, <<"5">>)>>,
      <<PlusArg(seed, <<"9", "9">>)>>,
      <<PlusArg(seed, <<"9", "9">>), PlusArg(ntb_random_seed, <<"5">>)>>,
      <<PlusArg(ntb_random_seed, <<"5">>), PlusFlag(seed)>>,
      <<PlusFlag(ntb_random_seed), PlusArg(seed, <<"9", "9">>)>>,
      <<PlusArg(ntb_random_seed, <<"x">>), PlusArg(seed, <<"9", "9">>)>>,
      <<PlusArg(seed, <<"1", ".", "5">>)>>,
      <<PlusArg(seed, <<"3">>), Plain, PlusArg(seed, <<"9", "9">>)>>,
      <<PlusFlag(seed)>> }

\* _initialise_testbench run from statement b.pc up to statement stop
RECURSIVE RunUntil(_, _)
RunUntil(b, stop) ==
    CHOOSE r \in { IF v.pc \in {stop, "done", "failed"} THEN v
                   ELSE RunUntil(Run(v.pc, v), stop) : v \in {b} } : TRUE

SeedInit ==
    /\ argv_ \in SeedArgvs
    /\ \E random_seed \in SeedTexts \cup {Unset},
          old_random_seed \in SeedTexts \cup {Unset} :
              env = EnvOf(random_seed, old_random_seed, <<"w", "o", "r", "k", ".", "t", "o", "p">>, Unset,
                          Unset, Unset, Unset, <<"a", ",", " ", "b">>, Unset, Unset)
    /\ sim = NominalSim
    /\ boot = RunUntil(Imported, "_process_plusargs")
    /\ TaskIdle

SeedNext ==
    \/ Do_process_plusargs
    \/ Do_process_packages
    \/ Do_setup_random_seed

SeedSpec == SeedInit /\ [][SeedNext]_vars

(***************************************************************************)
(* The plusargs specification: _process_plusargs on every argument vector  *)
(* of up to MaxArgs tokens                                                 *)
(***************************************************************************)
PlusargTokens ==
    { Plain,
      <<>>,
      <<"+">>,
      <<"+", "f">>,
      <<"+", "f", "=", "1">>,
      <<"+", "f", "=">>,
      <<"f", "=", "1">>,
      <<"-", "f">>,
      <<"+", "=", "x">>,
      <<"+", "b", "=", "a", "=", "q">>,
      <<"+", "b", "=", "=">>,
      <<"+", "b", "+", "f">>,
      <<"+", "s", "=", "9", "9">> }

RECURSIVE VectorsUpTo(_)
VectorsUpTo(n) ==
    IF n = 0 THEN { <<>> }
    ELSE LET shorter == VectorsUpTo(n - 1)
         IN  shorter \cup {Append(v, t) : v \in shorter, t \in PlusargTokens}

PlusargsInit ==
    /\ argv_ \in VectorsUpTo(MaxArgs)
    /\ env = NominalEnv
    /\ sim = NominalSim
    /\ boot = RunUntil(Imported, "_process_plusargs")
    /\ TaskIdle

PlusargsNext == Do_process_plusargs

PlusargsSpec == PlusargsInit /\ [][PlusargsNext]_vars

(***************************************************************************)
(* The root handle specification: _setup_root_handle on every value of     *)
(* COCOTB_TOPLEVEL of up to MaxRootLen characters, found or not            *)
(***************************************************************************)
RootChars == {" ", "\t", ".", "a", "b"}

RECURSIVE TextsUpTo(_)
TextsUpTo(n) ==
    IF n = 0 THEN { <<>> }
    ELSE LET shorter == TextsUpTo(n - 1)
         IN  shorter \cup {Append(s, ch) : s \in shorter, ch \in RootChars}

RootTexts ==
    TextsUpTo(MaxRootLen)
    \cup { Unset,
           <<" ", "w", "o", "r", "k", ".", "t", "o", "p", "\n">>,
           <<"l", "i", "b", ".", "w", "o", "r", "k", ".", "t", "o", "p">> }

RootInit ==
    /\ argv_ = <<Plain>>
    /\ \E toplevel \in RootTexts :
          env = EnvOf(Unset, Unset, toplevel, Unset, Unset, Unset, Unset,
                      <<"a", ",", " ", "b">>, Unset, Unset)
    /\ \E root_found \in BOOLEAN :
          sim = SimOf(root_found, TRUE, NoPackages, <<"O", "t", "h", "e", "r">>, FALSE, 1700000000)
    /\ boot = RunUntil(Imported, "_setup_root_handle")
    /\ TaskIdle

RootNext == Do_setup_root_handle

RootSpec == RootInit /\ [][RootNext]_vars

(***************************************************************************)
(* The session specification: the bootstrap, and beside it the simulator   *)
(* delivering events, code registering shutdown callbacks, and the         *)
(* regression manager calling the teardown when the regression has ended   *)
(***************************************************************************)
SimMessage == "Simulator shut down prematurely"

\* the calls of _sim_event, and the calls of _shutdown_testbench not made by it
EventsSoFar(b) ==
    LET by_event == {i \in DOMAIN b.sim_events : b.sim_events[i].reported # "none"}
    IN  Len(b.sim_events) + Len(b.shutdown_runs) - Cardinality(by_event)

\* the simulator calls the handler registered with set_sim_event_callback
SimEvent ==
    /\ boot.sim_event_callback = "_sim_event"
    /\ EventsSoFar(boot) < MaxEvents
    /\ boot' = _sim_event(boot, SimMessage)
    /\ UNCHANGED <<env, argv_, sim, taskVars>>

\* code outside the bootstrap calls _register_shutdown_callback(cb)
Register(cb) ==
    /\ boot.registrations < MaxRegistrations
    /\ boot' = [_register_shutdown_callback(boot, cb) EXCEPT !.registrations = @ + 1]
    /\ UNCHANGED <<env, argv_, sim, taskVars>>

\* the regression has ended and the teardown is called
ShutdownTestbench ==
    /\ boot.pc = "done"
    /\ EventsSoFar(boot) < MaxEvents
    /\ boot' = _shutdown_testbench(boot)
    /\ UNCHANGED <<env, argv_, sim, taskVars>>

SessionInit ==
    /\ argv_ = <<Plain>>
    /\ \E user_coverage \in {Unset, <<"1">>} :
          env = EnvOf(Unset, Unset, <<"w", "o", "r", "k", ".", "t", "o", "p">>, user_coverage, Unset, Unset, Unset,
                      <<"a", ",", " ", "b">>, Unset, Unset)
    /\ \E root_found \in BOOLEAN :
          sim = SimOf(root_found, TRUE, NoPackages, <<"O", "t", "h", "e", "r">>, FALSE, 1700000000)
    /\ boot = Imported
    /\ TaskIdle

SessionNext ==
    \/ Next
    \/ SimEvent
    \/ \E cb \in UserCallbacks : Register(cb)
    \/ ShutdownTestbench

SessionSpec == SessionInit /\ [][SessionNext]_vars

(***************************************************************************)
(* Claims about the bootstrap                                              *)
(***************************************************************************)
IsPrefix(s, t) == Len(s) <= Len(t) /\ s = SubSeq(t, 1, Len(s))

Ran(name) == name \in Range(boot.trace)

Called(op) == \E i \in DOMAIN boot.rm_calls : boot.rm_calls[i].op = op

\* the order the claim states, in the names of the statements
ClaimedOrder ==
    <<"_setup_logging", "argv", "sys_path", "warnings_filter",
      "get_simulator_product", "_profiling_initialize",
      "_register_shutdown_callback", "_process_plusargs", "_process_packages",
      "_setup_random_seed", "_setup_root_handle", "_start_user_coverage",
      "_setup_regression_manager", "Scheduler", "start_regression">>

\* the same with the argument vector and the search path ahead of logging
AmendedOrder ==
    <<"argv", "sys_path", "_setup_logging", "warnings_filter",
      "get_simulator_product", "_profiling_initialize",
      "_register_shutdown_callback", "_process_plusargs", "_process_packages",
      "_setup_random_seed", "_setup_root_handle", "_start_user_coverage",
      "_setup_regression_manager", "Scheduler", "start_regression">>

\* the statements of the trace that the claim speaks about
StatedSteps == SelectSeq(boot.trace, LAMBDA x : x \in Range(ClaimedOrder))

\* C7 as stated: the bootstrap performs its steps in the stated order, which
\* begins with logging initialization before the argument vector is captured
\* and before the module search path is corrected.
C7_StatedOrder == IsPrefix(StatedSteps, ClaimedOrder)

\* C7 as amended: the bootstrap captures the argument vector and corrects the
\* module search path, then initializes logging, and performs the remaining
\* steps in the stated order; a bootstrap that ends without error has
\* performed every one of them.
C7_CodeOrder ==
    /\ IsPrefix(StatedSteps, AmendedOrder)
    /\ boot.pc = "done" => StatedSteps = AmendedOrder

C7_Witness == boot.pc = "done" /\ Called("start_regression")

TrimmedEnv(name) == Strip(GetenvOrEmpty(name))

BothFiltersSet ==
    /\ TrimmedEnv("COCOTB_TESTCASE") # <<>>
    /\ TrimmedEnv("COCOTB_TEST_FILTER") # <<>>

\* the regression manager step ran with a module list that is not empty
FilterCheckReached ==
    /\ Ran("_setup_regression_manager")
    /\ GetenvOrEmpty("COCOTB_TEST_MODULES") # <<>>

\* C8 as stated: with both test-filter variables set to non-empty values the
\* bootstrap fails with a configuration error that is raised before
\* discover_tests is invoked.
C8_ErrorBeforeDiscovery ==
    (BothFiltersSet /\ FilterCheckReached)
    => /\ boot.pc = "failed"
       /\ boot.error.msg = BothFiltersError
       /\ ~Called("discover_tests")

\* C8 as amended: with both test-filter variables non-empty after trimming,
\* a bootstrap that reaches the filter check fails with the configuration
\* error after discover_tests has been invoked, and before a filter is
\* added, the scheduler constructed or the regression started.
C8_ErrorAfterDiscovery ==
    (BothFiltersSet /\ FilterCheckReached)
    => /\ boot.pc = "failed"
       /\ boot.error.type = "RuntimeError"
       /\ boot.error.msg = BothFiltersError
       /\ Called("discover_tests")
       /\ ~Called("add_filters")
       /\ ~Called("set_mode")
       /\ ~Called("start_regression")
       /\ ~Defined(boot, "_scheduler_inst")

C8_Witness ==
    /\ BothFiltersSet
    /\ boot.pc = "failed"
    /\ boot.error.msg = BothFiltersError

BothSeedVarsSet ==
    env.COCOTB_RANDOM_SEED # Unset /\ env.RANDOM_SEED # Unset

DeprecationWarned ==
    \E i \in DOMAIN boot.warnings : boot.warnings[i] = DeprecatedSeedWarning

\* C9 as stated: with both seed variables set the resolved seed is the
\* primary variable's value and a deprecation warning is emitted because the
\* deprecated variable is present.
C9_WarnsWhenBothSet ==
    (/\ Ran("_setup_random_seed")
     /\ BothSeedVarsSet
     /\ literal_eval(env.COCOTB_RANDOM_SEED).ok)
    => /\ boot._random_seed = literal_eval(env.COCOTB_RANDOM_SEED)
       /\ DeprecationWarned

\* C9 as amended: with both seed variables set the resolved seed is the
\* primary variable's value, the deprecated variable is not read and no
\* deprecation warning is emitted; the warning is emitted exactly when the
\* primary variable is unset and the deprecated one is set.
C9_PrimaryWinsNoWarning ==
    Ran("_setup_random_seed")
    => /\ DeprecationWarned
          <=> (env.COCOTB_RANDOM_SEED = Unset /\ env.RANDOM_SEED # Unset)
       /\ BothSeedVarsSet
          => /\ "RANDOM_SEED" \notin Range(boot.getenv_calls)
             /\ literal_eval(env.COCOTB_RANDOM_SEED).ok
                => /\ boot.pc # "failed"
                   /\ boot._random_seed = literal_eval(env.COCOTB_RANDOM_SEED)
                   /\ boot.random_seed_calls = <<boot._random_seed>>

C9_Witness ==
    /\ Ran("_setup_random_seed")
    /\ env.COCOTB_RANDOM_SEED = <<"4", "2">>
    /\ env.RANDOM_SEED = <<"7">>
    /\ boot._random_seed = Value("int", 42)
    /\ boot.random_seed_calls = <<Value("int", 42)>>

\* the precedence chain, highest first
SeedChain == <<"COCOTB_RANDOM_SEED", "RANDOM_SEED", "ntb_random_seed", "seed", "time">>

Rank(source) == CHOOSE i \in DOMAIN SeedChain : SeedChain[i] = source

SourcePresent(source) ==
    CASE source = "COCOTB_RANDOM_SEED" -> env.COCOTB_RANDOM_SEED # Unset
      [] source = "RANDOM_SEED"        -> env.RANDOM_SEED # Unset
      [] source = "ntb_random_seed"    -> ntb_random_seed \in DOMAIN boot.plusargs
      [] source = "seed"               -> seed \in DOMAIN boot.plusargs
      [] source = "time"               -> TRUE

\* the first source of the chain that is present
Winner ==
    SeedChain[CHOOSE i \in DOMAIN SeedChain :
                 /\ SourcePresent(SeedChain[i])
                 /\ \A j \in 1..(i - 1) : ~SourcePresent(SeedChain[j])]

\* what the winning source evaluates to
WinnerValue ==
    CASE Winner = "COCOTB_RANDOM_SEED" -> literal_eval(env.COCOTB_RANDOM_SEED)
      [] Winner = "RANDOM_SEED"        -> literal_eval(env.RANDOM_SEED)
      [] Winner = "ntb_random_seed"    ->
             IF boot.plusargs[ntb_random_seed].flag THEN Raises("TypeError")
             ELSE literal_eval(boot.plusargs[ntb_random_seed].str)
      [] Winner = "seed"               ->
             IF boot.plusargs[seed].flag THEN Raises("TypeError")
             ELSE literal_eval(boot.plusargs[seed].str)
      [] Winner = "time"               -> Value("int", sim.now)

WinnerAccepted ==
    /\ WinnerValue.ok
    /\ Winner \in {"ntb_random_seed", "seed"} => IsInstanceInt(WinnerValue)

\* C10: the seed comes from the first present source of the chain primary
\* variable, deprecated variable, +ntb_random_seed, +seed, wall clock; no
\* source behind the winning one is consulted, so none can cause an error:
\* the step fails only over the winning source's own value; and on success
\* random.seed is called exactly once, with the resolved value.
C10_SeedPrecedence ==
    Ran("_setup_random_seed")
    => /\ \A i \in DOMAIN boot.consulted : Rank(boot.consulted[i]) <= Rank(Winner)
       /\ IF WinnerAccepted
          THEN /\ boot.pc # "failed"
               /\ boot.seed_source = Winner
               /\ boot._random_seed = WinnerValue
               /\ boot.random_seed_calls = <<WinnerValue>>
          ELSE /\ boot.pc = "failed"
               /\ boot.error.arg = <<Winner>>
               /\ boot.random_seed_calls = <<>>

C10_Witness ==
    /\ Ran("_setup_random_seed")
    /\ Winner = "ntb_random_seed"
    /\ seed \in DOMAIN boot.plusargs
    /\ boot.plusargs[seed].flag
    /\ boot.random_seed_calls = <<Value("int", 5)>>

\* the text of an integer literal evaluates to an int that is not a bool
IntegerLiteral(v) == v.ok /\ v.type = "int"

\* C11: whichever source the seed comes from (primary or deprecated
\* variable, +ntb_random_seed, +seed), a value that is not an integer literal
\* (a non-literal, a float, a quoted string, a boolean, a flag) makes the seed
\* step fail: the random source is not seeded and the bootstrap stops.
C11_NonIntegerSeedIsFatal ==
    (/\ Ran("_setup_random_seed")
     /\ Winner # "time"
     /\ ~IntegerLiteral(WinnerValue))
    => /\ boot.pc = "failed"
       /\ boot.random_seed_calls = <<>>

\* the coverage variable the step acts on: the primary one if it is set
CoverageEnvvar ==
    IF env.COCOTB_USER_COVERAGE # Unset THEN env.COCOTB_USER_COVERAGE
    ELSE env.COVERAGE

CoverageUnavailableLogged ==
    \E i \in DOMAIN boot.log_calls :
        /\ boot.log_calls[i].level = "error"
        /\ boot.log_calls[i].msg =
               "Coverage collection requested but coverage module not available"

ModulesError == "Environment variable COCOTB_TEST_MODULES is not defined or empty"

\* the seed comes from a +seed plusarg that cannot be parsed
PlusargSeedUnparsable ==
    /\ env.COCOTB_RANDOM_SEED = Unset
    /\ env.RANDOM_SEED = Unset
    /\ seed \in DOMAIN boot.plusargs
    /\ boot.plusargs[seed].flag

\* the conditions the claim lists, each at the step that meets it
FailureCause ==
    \/ Ran("_setup_random_seed") /\ PlusargSeedUnparsable
    \/ Ran("_setup_root_handle") /\ ~sim.root_found
    \/ Ran("_setup_regression_manager") /\ GetenvOrEmpty("COCOTB_TEST_MODULES") = <<>>
    \/ Ran("_setup_regression_manager") /\ BothFiltersSet

\* C12: a bootstrap step that fails ends the bootstrap there: the scheduler
\* is not constructed and start_regression is not called; an unparsable
\* plusarg seed, an unresolved root handle, an unset or empty module list and
\* two filters each are such a failure.  The coverage step with the coverage
\* module unavailable is none: it logs an error, registers no teardown
\* callback, and the bootstrap goes on to the regression manager.
C12_FailureStopsBootstrap ==
    /\ FailureCause => Failed(boot)
    /\ Failed(boot)
       => /\ boot.pc = "failed"
          /\ ~Defined(boot, "_scheduler_inst")
          /\ boot.test_complete_cb = "none"
          /\ ~Called("start_regression")
    /\ (Ran("_start_user_coverage") /\ Truthy(CoverageEnvvar) /\ ~sim.coverage_module)
       => /\ CoverageUnavailableLogged
          /\ "stop_user_coverage" \notin Range(boot._shutdown_callbacks)
          /\ boot.coverage = "off"
          /\ boot.trace[Len(boot.trace)] = "_start_user_coverage"
             => ~Failed(boot) /\ boot.pc = "_setup_regression_manager"
          /\ (~FailureCause /\ boot.pc = "done") => Called("start_regression")

C12_Witness ==
    /\ Failed(boot)
    /\ boot.error.msg = ModulesError
    /\ CoverageUnavailableLogged
    /\ Ran("_start_user_coverage")

\* statement first has run by the time statement second runs
RanBefore(first, second) ==
    \A j \in DOMAIN boot.trace :
        boot.trace[j] = second => \E i \in 1..(j - 1) : boot.trace[i] = first

\* C18: on every run of the bootstrap no log call is made before logging is
\* initialized, the plusargs are parsed before the seed is resolved, the
\* simulator product name is known before package discovery uses it, the
\* random source is seeded before the root handle is resolved and before the
\* tests are discovered, the root handle is resolved before the tests are
\* discovered, and the scheduler is constructed, bound to the regression
\* manager's completion callback, before start_regression is called; no
\* statement meets a global that is not yet assigned.
C18_DataDependencies ==
    /\ boot.error.type # "NameError"
    /\ boot.log_calls # <<>> => boot.logging_configured /\ Defined(boot, "log")
    /\ RanBefore("_setup_logging", "get_simulator_product")
    /\ RanBefore("_process_plusargs", "_setup_random_seed")
    /\ RanBefore("get_simulator_product", "_process_packages")
    /\ boot.discover_all_calls # <<>> => Defined(boot, "SIM_NAME")
    /\ boot.root_queries # <<>> => Len(boot.random_seed_calls) = 1
    /\ Called("discover_tests")
       => /\ Len(boot.random_seed_calls) = 1
          /\ Defined(boot, "top")
          /\ Len(boot.root_queries) = 1
    /\ Called("start_regression")
       => /\ Defined(boot, "_scheduler_inst")
          /\ boot.test_complete_cb = "regression_manager._test_complete"
          /\ RanBefore("Scheduler", "start_regression")

C18_Witness ==
    /\ boot.pc = "done"
    /\ Called("start_regression")
    /\ boot.seed_source = "seed"
    /\ boot.discover_all_calls # <<>>
    /\ boot.SIM_NAME = IcarusVerilog

\* COCOTB_TEST_MODULES names no module: unset, empty, or commas and blanks
NoModuleNamed ==
    LET text == GetenvOrEmpty("COCOTB_TEST_MODULES")
    IN  \A i \in DOMAIN text : text[i] \in Whitespace \cup {","}

\* C20: discover_tests is never invoked with zero module names: a
\* COCOTB_TEST_MODULES of only commas and whitespace fails the bootstrap with
\* the configuration error of an unset or empty value, and the regression is
\* not started.
C20_DiscoveryNeedsModules ==
    /\ \A i \in DOMAIN boot.rm_calls :
           boot.rm_calls[i].op = "discover_tests" => boot.rm_calls[i].args # <<>>
    /\ (Ran("_setup_regression_manager") /\ NoModuleNamed)
       => /\ boot.pc = "failed"
          /\ boot.error.msg = ModulesError
          /\ ~Called("start_regression")

(***************************************************************************)
(* Claims about the plusargs map                                           *)
(***************************************************************************)
IsPlusToken(tok) == tok # <<>> /\ tok[1] = "+"

HasEquals(tok) == \E i \in DOMAIN tok : tok[i] = "="

FirstEquals(tok) ==
    CHOOSE i \in DOMAIN tok : tok[i] = "=" /\ \A j \in 1..(i - 1) : tok[j] # "="

\* the text between '+' and the first '=', or all the text after '+'
StatedName(tok) ==
    IF HasEquals(tok) THEN SubSeq(tok, 2, FirstEquals(tok) - 1)
    ELSE SubSeq(tok, 2, Len(tok))

\* everything after the first '=', or the boolean true
StatedValue(tok) ==
    IF HasEquals(tok) THEN StrValue(SubSeq(tok, FirstEquals(tok) + 1, Len(tok)))
    ELSE FlagValue

OccurrencesOf(name) ==
    {i \in DOMAIN argv_ : IsPlusToken(argv_[i]) /\ StatedName(argv_[i]) = name}

LastOccurrenceOf(name) ==
    CHOOSE i \in OccurrencesOf(name) : \A j \in OccurrencesOf(name) : j <= i

\* C16: the names of the plusargs map are exactly the names of the tokens
\* that start with '+'; a token with '=' maps the text between '+' and the
\* first '=' to everything behind that '=', a token without '=' maps the
\* text behind '+' to true; other tokens add nothing; of a repeated name the
\* last occurrence in the vector is kept.
C16_PlusargsMap ==
    Ran("_process_plusargs")
    => /\ ~Failed(boot)
       /\ DOMAIN boot.plusargs =
              {StatedName(argv_[i]) : i \in {j \in DOMAIN argv_ : IsPlusToken(argv_[j])}}
       /\ \A name \in DOMAIN boot.plusargs :
              boot.plusargs[name] = StatedValue(argv_[LastOccurrenceOf(name)])

C16_Witness ==
    /\ Ran("_process_plusargs")
    /\ argv_ = << <<"+", "f", "=", "1">>, <<"+", "b", "=", "a", "=", "q">>, <<"+", "f">> >>
    /\ DOMAIN boot.plusargs = { <<"f">>, <<"b">> }
    /\ boot.plusargs[<<"f">>] = FlagValue
    /\ boot.plusargs[<<"b">>] = StrValue(<<"a", "=", "q">>)

(***************************************************************************)
(* Claims about the root handle                                            *)
(***************************************************************************)
NonBlank(s) == {i \in DOMAIN s : s[i] \notin Whitespace}

\* s without the whitespace at its two ends
Trimmed(s) ==
    IF NonBlank(s) = {} THEN <<>>
    ELSE SubSeq(s, CHOOSE i \in NonBlank(s) : \A j \in NonBlank(s) : i <= j,
                   CHOOSE i \in NonBlank(s) : \A j \in NonBlank(s) : j <= i)

FirstDot(s) == CHOOSE i \in DOMAIN s : s[i] = "." /\ \A j \in 1..(i - 1) : s[j] # "."

\* the name the claim states for the configured root name; Unset is absent
StatedRootName ==
    LET name == Trimmed(env.COCOTB_TOPLEVEL)
    IN  IF env.COCOTB_TOPLEVEL = Unset \/ name = <<>> THEN Unset
        ELSE IF \E i \in DOMAIN name : name[i] = "."
        THEN SubSeq(name, FirstDot(name) + 1, Len(name))
        ELSE name

\* C17: get_root_handle is given no name when COCOTB_TOPLEVEL is unset or
\* empty after trimming, and otherwise the trimmed name without everything
\* up to and including its first '.'; when the bridge returns no handle the
\* bootstrap fails with an error that names exactly the string passed to the
\* bridge, and the root handle is not set.
C17_RootName ==
    Ran("_setup_root_handle")
    => /\ boot.root_queries = <<StatedRootName>>
       /\ IF sim.root_found
          THEN /\ ~Failed(boot)
               /\ Defined(boot, "top")
               /\ boot.top = StatedRootName
          ELSE /\ boot.pc = "failed"
               /\ boot.error.type = "RuntimeError"
               /\ boot.error.msg = "Can not find root handle"
               /\ boot.error.arg = boot.root_queries[1]
               /\ ~Defined(boot, "top")

C17_Witness ==
    /\ Ran("_setup_root_handle")
    /\ env.COCOTB_TOPLEVEL = <<"l", "i", "b", ".", "w", "o", "r", "k", ".", "t", "o", "p">>
    /\ boot.root_queries = << <<"w", "o", "r", "k", ".", "t", "o", "p">> >>
    /\ boot.pc = "failed"
    /\ boot.error.arg = <<"w", "o", "r", "k", ".", "t", "o", "p">>

(***************************************************************************)
(* Claims about the teardown and the simulator events                      *)
(***************************************************************************)
\* C13: in one invocation of _shutdown_testbench in which every callback
\* returns normally, the callbacks invoked are the registered callbacks, each
\* once, in registration order; a callback registered twice is invoked at
\* each of its two positions.
C13_TeardownInRegistrationOrder ==
    \A k \in DOMAIN boot.shutdown_runs :
        LET r == boot.shutdown_runs[k]
        IN  ~r.raised
            => /\ r.invoked = r.registered
               /\ IsPrefix(r.at_entry, r.invoked)

C13_Witness ==
    \E k \in DOMAIN boot.shutdown_runs :
        LET r == boot.shutdown_runs[k]
        IN  /\ ~r.raised
            /\ Len(r.invoked) >= 3
            /\ \E i, j \in DOMAIN r.invoked : i < j /\ r.invoked[i] = r.invoked[j]
            /\ r.invoked[1] = "cocotb._profiling.finalize"

\* how many invocations of the teardown called the callback at position i
InvocationsOf(i) ==
    Cardinality({k \in DOMAIN boot.shutdown_runs :
                    Len(boot.shutdown_runs[k].invoked) >= i})

\* C14: over a whole session no registered shutdown callback is invoked a
\* second time, whatever simulator events and registrations occur.
C14_EachCallbackOncePerSession ==
    \A i \in DOMAIN boot._shutdown_callbacks : InvocationsOf(i) <= 1

\* C19: a simulator event delivered once the event callback is registered is
\* handled without error at every point of the session: the message is
\* reported, to the regression manager's _fail_simulation if the manager
\* exists and to the error log otherwise, and then the registered shutdown
\* callbacks are run.
C19_SimEventAlwaysHandled ==
    \A k \in DOMAIN boot.sim_events :
        LET e == boot.sim_events[k]
        IN  e.error # "callback"
            => /\ e.error = "none"
               /\ e.reported \in {"_fail_simulation", "log.error"}
               /\ e.run \in DOMAIN boot.shutdown_runs
               /\ boot.shutdown_runs[e.run].invoked = boot.shutdown_runs[e.run].registered

\* the state a session is in once the bootstrap has run to its end
BootDone ==
    /\ env = NominalEnv
    /\ argv_ = <<Plain>>
    /\ sim = NominalSim
    /\ boot = RunFrom(Imported)

(***************************************************************************)
(* The task specification: the state when the regression manager has      *)
(* queued the test task (task 1) on the fresh scheduler                    *)
(***************************************************************************)
TaskInit ==
    /\ tstate = [t \in Tasks |-> IF t = 1 THEN "pending" ELSE "absent"]
    /\ cancelled = [t \in Tasks |-> FALSE]
    /\ exc = [t \in Tasks |-> None]
    /\ done_callbacks = [t \in Tasks |-> <<>>]
    /\ cancel_req = [t \in Tasks |-> FALSE]
    /\ tpc = [t \in Tasks |-> "body"]
    /\ scheduled = <<1>>
    /\ trigger2tasks = [t \in Tasks |-> <<>>]
    /\ timer_waiters = {}
    /\ current = NoTask
    /\ abort_calls = <<>>
    /\ task_log = <<>>
    /\ monitor_calls = [t \in Tasks |-> 0]
    /\ watched = [t \in Tasks |-> FALSE]
    /\ turns = [t \in Tasks |-> 0]
    /\ ops = 0
    /\ start_snap = [t \in Tasks |-> NoSnap]
    /\ ret = NoRet
    /\ BootDone

TaskNext ==
    \/ \E c \in Tasks, x \in Tasks : CreateTask(c, x)
    \/ \E c \in Tasks, x \in Tasks : StartSoon(c, x)
    \/ \E c \in Tasks, x \in Tasks : Start(c, x)
    \/ \E c \in Tasks : StartReturn(c)
    \/ \E c \in Tasks : AwaitTimer(c)
    \/ \E c \in Tasks, u \in Tasks : AwaitComplete(c, u)
    \/ \E c \in Tasks, e \in Errors \cup {None} : Finish(c, e)
    \/ \E c \in Tasks, u \in Tasks : Cancel(c, u)
    \/ SchedulerResume
    \/ \E t \in Tasks : TimerFire(t)

TaskSpec == TaskInit /\ [][TaskNext]_vars

(***************************************************************************)
(* The wrapping specification: create_task called, again and again, on     *)
(* every kind of value, whatever tasks exist                               *)
(***************************************************************************)
Misuses == {"coroutine function", "async generator", "other"}

\* the values create_task can be given while the tasks are ts
WrapInputs(ts) ==
    {[kind |-> "Task", id |-> x, abc |-> a] :
        x \in {y \in Tasks : ts[y] # "absent"}, a \in BOOLEAN}
    \cup {[kind |-> "Coroutine", id |-> x, abc |-> TRUE] :
             x \in {y \in Tasks : ts[y] = "absent"}}
    \cup {[kind |-> k, id |-> NoTask, abc |-> FALSE] : k \in Misuses}

\* create_task(coro) is called and what it returns or raises is kept
Wrap(coro) ==
    /\ coro \in WrapInputs(tstate)
    /\ LET r == create_task(tstate, coro)
       IN  /\ tstate' = r.tstate
           /\ ret' = [called  |-> TRUE,
                      input   |-> coro,
                      before  |-> tstate,
                      result  |-> r,
                      created |-> IF coro.kind = "Coroutine" /\ r.error = "none"
                                  THEN ret.created \cup {r.task}
                                  ELSE ret.created]
    /\ UNCHANGED <<cancelled, exc, done_callbacks, cancel_req, tpc, scheduled,
                   trigger2tasks, timer_waiters, current, abort_calls, task_log,
                   monitor_calls, watched, turns, ops, start_snap>>
    /\ UNCHANGED bootVars

WrapInit ==
    /\ tstate \in [Tasks -> {"absent", "pending", "suspended", "done"}]
    /\ cancelled = [t \in Tasks |-> FALSE]
    /\ exc = [t \in Tasks |-> None]
    /\ done_callbacks = [t \in Tasks |-> <<>>]
    /\ cancel_req = [t \in Tasks |-> FALSE]
    /\ tpc = [t \in Tasks |-> "body"]
    /\ scheduled = <<>>
    /\ trigger2tasks = [t \in Tasks |-> <<>>]
    /\ timer_waiters = {}
    /\ current = NoTask
    /\ abort_calls = <<>>
    /\ task_log = <<>>
    /\ monitor_calls = [t \in Tasks |-> 0]
    /\ watched = [t \in Tasks |-> FALSE]
    /\ turns = [t \in Tasks |-> 0]
    /\ ops = 0
    /\ start_snap = [t \in Tasks |-> NoSnap]
    /\ ret = NoRet
    /\ BootDone

WrapNext ==
    \E coro \in [kind : {"Task", "Coroutine"} \cup Misuses,
                 id : Tasks \cup {NoTask}, abc : BOOLEAN] : Wrap(coro)

WrapSpec == WrapInit /\ [][WrapNext]_vars

(***************************************************************************)
(* Claims about create_task                                                *)
(***************************************************************************)
ExistingTasks(ts) == {x \in Tasks : ts[x] # "absent"}

\* C15: create_task returns a Task it is given as that same Task and creates
\* none; it turns a coroutine not yet started into exactly one new Task that
\* owns it; a coroutine function, an async generator and any other value
\* each raise TypeError and create no Task; the Task test comes first, so
\* create_task applied to the Task create_task returned gives that Task again.
C15_CreateTaskClassifies ==
    ret.called
    => LET coro  == ret.input
           r     == ret.result
           again == create_task(r.tstate, [kind |-> "Task", id |-> r.task, abc |-> coro.abc])
       IN  /\ tstate = r.tstate
           /\ coro.kind = "Task"
              => /\ r.error = "none"
                 /\ r.task = coro.id
                 /\ r.tstate = ret.before
           /\ coro.kind = "Coroutine"
              => /\ r.error = "none"
                 /\ r.task = coro.id
                 /\ ret.before[r.task] = "absent"
                 /\ r.tstate[r.task] = "pending"
                 /\ ExistingTasks(r.tstate) = ExistingTasks(ret.before) \cup {r.task}
                 /\ \A y \in Tasks \ {r.task} : r.tstate[y] = ret.before[y]
           /\ coro.kind \in Misuses
              => /\ r.error # "none"
                 /\ r.task = NoTask
                 /\ r.tstate = ret.before
           /\ r.error = "none"
              => /\ again.error = "none"
                 /\ again.task = r.task
                 /\ again.tstate = r.tstate

\* create_task was given the Task an earlier call had made of a coroutine
C15_Witness ==
    /\ ret.called
    /\ ret.input.kind = "Task"
    /\ ret.input.abc
    /\ ret.input.id \in ret.created
    /\ ret.result.task = ret.input.id
    /\ ret.result.tstate = ret.before

(***************************************************************************)
(* Claims about the task entry points and the escalation callback          *)
(***************************************************************************)
AbortsFor(t) == SelectSeq(abort_calls, LAMBDA a : a.task = t)

Spawned(t) == done_callbacks[t] # <<>>

\* C1: a task spawned with start_soon/start that ends Done with outcome
\* Failed(e), not cancelled and with no task awaiting its completion at that
\* moment, has had _abort_test called exactly once, with argument e.
C1_AbortExactlyOnce ==
    \A t \in Tasks :
        (/\ tstate[t] = "done"
         /\ Spawned(t)
         /\ ~cancelled[t]
         /\ exc[t] # None
         /\ ~watched[t])
        => /\ Len(AbortsFor(t)) = 1
           /\ \A i \in DOMAIN AbortsFor(t) : AbortsFor(t)[i].exc = exc[t]

\* C2: escalation happens at most once per Task, also for a Task handed to
\* start_soon/start more than once: the callback runs exactly once at the
\* terminal transition and _abort_test is called at most once for the task.
C2_EscalationOncePerTask ==
    \A t \in Tasks :
        /\ Len(AbortsFor(t)) <= 1
        /\ monitor_calls[t] <= 1
        /\ (tstate[t] = "done" /\ Spawned(t)) => monitor_calls[t] = 1

\* C3: a task whose terminal outcome is Cancelled never causes a call of
\* _abort_test, whether or not it carries a recorded error and whether or not
\* a task awaits its completion.
C3_CancelledNeverAborts ==
    \A t \in Tasks :
        (tstate[t] = "done" /\ cancelled[t]) => AbortsFor(t) = <<>>

C3_Witness ==
    \E t \in Tasks :
        /\ tstate[t] = "done"
        /\ cancelled[t]
        /\ exc[t] # None
        /\ ~watched[t]
        /\ monitor_calls[t] >= 1

\* C4: if a task was awaiting t.complete when t made its terminal transition,
\* _abort_test is not called for t, even when t failed.
C4_AwaitedNeverAborts ==
    \A t \in Tasks :
        (tstate[t] = "done" /\ watched[t]) => AbortsFor(t) = <<>>

C4_Witness ==
    \E t \in Tasks :
        /\ tstate[t] = "done"
        /\ watched[t]
        /\ ~cancelled[t]
        /\ exc[t] # None
        /\ monitor_calls[t] >= 1

\* C5: start_soon runs no part of the task body before it returns: across the
\* call no task gains a turn or changes state (a fresh coroutine only becomes a
\* pending Task), control stays with the caller, and the task has the callback
\* attached and is queued; a task leaves the not-started states only in a step
\* of the scheduler that takes it from the head of the queue.
C5_StartSoonRunsNoBody ==
    [][ /\ \A c \in Tasks, x \in Tasks :
              StartSoon(c, x) =>
                  /\ turns' = turns
                  /\ \A t \in Tasks :
                        \/ tstate'[t] = tstate[t]
                        \/ t = x /\ tstate[t] = "absent" /\ tstate'[t] = "pending"
                  /\ current' = c
                  /\ Len(done_callbacks'[x]) = Len(done_callbacks[x]) + 1
                  /\ x \in Range(scheduled')
        /\ \A t \in Tasks :
              (/\ tstate[t] \in {"absent", "pending"}
               /\ tstate'[t] \notin {"absent", "pending"})
              => /\ current = NoTask
                 /\ scheduled # <<>>
                 /\ Head(scheduled) = t
                 /\ turns'[t] = turns[t] + 1
      ]_vars

C5_Witness ==
    \E c \in Tasks, x \in Tasks :
        /\ current = c
        /\ x # c
        /\ tstate[x] = "pending"
        /\ Spawned(x)
        /\ x \in Range(scheduled)
        /\ turns[x] = 0

\* C6: when start returns to its caller, every task that was queued at the
\* time of the call, the spawned one included, has been given control by the
\* scheduler at least once since, and the caller was suspended and resumed
\* exactly once in between.
C6_StartYieldsToPending ==
    \A c \in Tasks :
        (current = c /\ tpc[c] = "start_await")
        => /\ start_snap[c].active
           /\ \A u \in start_snap[c].queued : turns[u] > start_snap[c].turns[u]
           /\ turns[c] = start_snap[c].turns[c] + 1

C6_Witness ==
    \E c \in Tasks :
        /\ current = c
        /\ tpc[c] = "start_await"
        /\ Cardinality(start_snap[c].queued) >= 2

====
